---- MODULE Spec2Model ----
(***************************************************************************)
(* Model of src/index.ts (class MinuetWeb): configuration, buffer store,   *)
(* URL resolution, content loading and the request handler.                *)
(*                                                                         *)
(* Strings are sequences of one-character strings, so that substring,      *)
(* indexOf, split/join and path.extname are computed as the code computes  *)
(* them.  File contents (Buffers) are sequences of one-character strings   *)
(* too; the size of a file is the length of its content.                   *)
(***************************************************************************)
EXTENDS Integers, Sequences, FiniteSets, TLC

(***************************************************************************)
(* JavaScript string primitives                                            *)
(***************************************************************************)

\* the value `undefined`
Undefined == <<"<undefined>">>

\* String(undefined), the property key JavaScript uses for obj[undefined]
UndefinedKey == <<"u","n","d","e","f","i","n","e","d">>

\* s.substring(n)
Substring(s, n) == IF n >= Len(s) THEN <<>> ELSE SubSeq(s, n + 1, Len(s))

\* s.indexOf(p) === 0
StartsWith(s, p) == Len(p) <= Len(s) /\ SubSeq(s, 1, Len(p)) = p

\* s.split("//").join("/"): one left-to-right pass over non-overlapping "//"
RECURSIVE CollapseFrom(_, _)
CollapseFrom(s, i) ==
    IF i > Len(s) THEN <<>>
    ELSE IF i < Len(s) /\ s[i] = "/" /\ s[i + 1] = "/"
         THEN <<"/">> \o CollapseFrom(s, i + 2)
         ELSE <<s[i]>> \o CollapseFrom(s, i + 1)

Collapse(s) == CollapseFrom(s, 1)

\* s.split("?")[0]
RECURSIVE BeforeQueryFrom(_, _)
BeforeQueryFrom(s, i) ==
    IF i > Len(s) \/ s[i] = "?" THEN <<>>
    ELSE <<s[i]>> \o BeforeQueryFrom(s, i + 1)

BeforeQuery(s) == BeforeQueryFrom(s, 1)

\* s.split("/"): the sequence of segments (empty segments kept)
RECURSIVE SplitSlashFrom(_, _, _)
SplitSlashFrom(s, i, cur) ==
    IF i > Len(s) THEN <<cur>>
    ELSE IF s[i] = "/" THEN <<cur>> \o SplitSlashFrom(s, i + 1, <<>>)
         ELSE SplitSlashFrom(s, i + 1, Append(cur, s[i]))

SplitSlash(s) == SplitSlashFrom(s, 1, <<>>)

\* index of the last occurrence of character c in s, 0 when there is none
RECURSIVE LastIndexFrom(_, _, _)
LastIndexFrom(s, c, i) ==
    IF i = 0 THEN 0
    ELSE IF s[i] = c THEN i ELSE LastIndexFrom(s, c, i - 1)

LastIndexOf(s, c) == LastIndexFrom(s, c, Len(s))

\* s without its trailing "/" characters
RECURSIVE StripTrailingSlashes(_)
StripTrailingSlashes(s) ==
    IF Len(s) > 0 /\ s[Len(s)] = "/"
    THEN StripTrailingSlashes(SubSeq(s, 1, Len(s) - 1))
    ELSE s

BasenameOf(q) == Substring(q, LastIndexOf(q, "/"))

\* path.basename(p)
Basename(p) == BasenameOf(StripTrailingSlashes(p))

\* the extension of the path component b whose last "." is at d
ExtnameOf(b, d) == IF d <= 1 \/ b = <<".", ".">> THEN <<>> ELSE Substring(b, d - 1)

ExtnameOfBase(b) == ExtnameOf(b, LastIndexOf(b, "."))

\* path.extname(p): from the last "." of the last path component to its end;
\* "" when there is no ".", when the only "." starts the component, and for ".."
Extname(p) == ExtnameOfBase(Basename(p))

\* path.dirname(p)
DirnameOf(p, q, d) ==
    IF Len(q) = 0 THEN (IF Len(p) > 0 THEN <<"/">> ELSE <<".">>)
    ELSE IF d = 0 THEN <<".">>
    ELSE IF d = 1 THEN <<"/">>
    ELSE StripTrailingSlashes(SubSeq(q, 1, d - 1))

DirnameOfStripped(p, q) == DirnameOf(p, q, LastIndexOf(q, "/"))

Dirname(p) == DirnameOfStripped(p, StripTrailingSlashes(p))

(***************************************************************************)
(* Names used on disk and in requests                                      *)
(***************************************************************************)

DA == <<"d","a">>
DB == <<"d","b">>
HTDOCS == <<"h","t","d","o","c","s">>
X_TXT == <<"x",".","t","x","t">>
I_HTM == <<"i",".","h","t","m">>
J_HTM == <<"j",".","h","t","m">>
K_TXT == <<"k",".","t","x","t">>
N_HTM == <<"n",".","h","t","m">>
Z_BIN == <<"z",".","b","i","n">>
CONSTRUCTOR == <<"c","o","n","s","t","r","u","c","t","o","r">>
P_CONSTRUCTOR == <<"p",".">> \o CONSTRUCTOR
SUB == <<"s">>

(***************************************************************************)
(* The filesystem (fs.existsSync, statSync, readFileSync, readdirSync)     *)
(*                                                                         *)
(* A node is a sequence of path segments below the working directory.      *)
(* The directories are fixed; fs maps every file node to its content or    *)
(* to Absent.  Every file has contents of its own (its tag, repeated), so  *)
(* the bytes of a response tell which file they were read from.            *)
(***************************************************************************)

Absent == <<"<absent>">>

Dirs == { <<>>, <<DA>>, <<DB>>, <<DA, SUB>>, <<HTDOCS>> }

Files == { <<DA, X_TXT>>, <<DA, I_HTM>>, <<DA, J_HTM>>, <<DA, Z_BIN>>,
           <<DA, P_CONSTRUCTOR>>, <<DA, SUB, I_HTM>>,
           <<DB, X_TXT>>, <<DB, I_HTM>>,
           <<K_TXT>>, <<N_HTM>> }

Tag(f) ==
    CASE f = <<DA, X_TXT>> -> "A"
      [] f = <<DA, I_HTM>> -> "B"
      [] f = <<DA, J_HTM>> -> "C"
      [] f = <<DA, Z_BIN>> -> "D"
      [] f = <<DA, P_CONSTRUCTOR>> -> "P"
      [] f = <<DA, SUB, I_HTM>> -> "E"
      [] f = <<DB, X_TXT>> -> "F"
      [] f = <<DB, I_HTM>> -> "G"
      [] f = <<K_TXT>> -> "K"
      [] f = <<N_HTM>> -> "N"

\* the content of file f that is n bytes long
Bytes(f, n) == [i \in 1..n |-> Tag(f)]

\* the order in which readdirSync lists the entries of a directory
EntryOrder ==
    << DA, DB, HTDOCS, I_HTM, J_HTM, K_TXT, N_HTM, P_CONSTRUCTOR, SUB, X_TXT, Z_BIN >>

IsFileNode(fs, n) == n \in Files /\ fs[n] # Absent

\* the node a path string names: kind "dir", "file" or "none".  Components
\* are walked left to right; "" and "." stay, ".." goes to the parent, and a
\* component below a regular file does not exist.  Paths are relative to the
\* working directory; nothing is modelled above it.
RECURSIVE Walk(_, _, _, _, _)
Walk(fs, segs, i, cur, kind) ==
    IF kind = "none" \/ i > Len(segs) THEN [kind |-> kind, node |-> cur]
    ELSE IF kind = "file" THEN [kind |-> "none", node |-> cur]
    ELSE LET seg == segs[i]
         IN  IF seg = <<>> \/ seg = <<".">> THEN Walk(fs, segs, i + 1, cur, kind)
             ELSE IF seg = <<".", ".">>
                  THEN IF cur = <<>> THEN [kind |-> "none", node |-> cur]
                       ELSE Walk(fs, segs, i + 1, SubSeq(cur, 1, Len(cur) - 1), "dir")
             ELSE LET child == Append(cur, seg)
                  IN  IF child \in Dirs THEN Walk(fs, segs, i + 1, child, "dir")
                      ELSE IF IsFileNode(fs, child) THEN Walk(fs, segs, i + 1, child, "file")
                      ELSE [kind |-> "none", node |-> child]

Resolve(fs, p) ==
    IF p = <<>> THEN [kind |-> "none", node |-> <<>>]
    ELSE Walk(fs, SplitSlash(p), 1, <<>>, "dir")

\* fs.existsSync(p)
existsSync(fs, p) == Resolve(fs, p).kind # "none"

\* fs.existsSync(p) && fs.statSync(p).isFile()
isFile(fs, p) == Resolve(fs, p).kind = "file"

\* fs.readFileSync(p), for a p that names a regular file
readFileSync(fs, p) == fs[Resolve(fs, p).node]

\* fs.readdirSync(dir, {withFileTypes: true}), for a directory node
RECURSIVE ReaddirFrom(_, _, _)
ReaddirFrom(fs, dir, i) ==
    IF i > Len(EntryOrder) THEN <<>>
    ELSE LET child == Append(dir, EntryOrder[i])
         IN  IF child \in Dirs
             THEN <<[name |-> EntryOrder[i], isDirectory |-> TRUE]>> \o ReaddirFrom(fs, dir, i + 1)
             ELSE IF IsFileNode(fs, child)
             THEN <<[name |-> EntryOrder[i], isDirectory |-> FALSE]>> \o ReaddirFrom(fs, dir, i + 1)
             ELSE ReaddirFrom(fs, dir, i + 1)

readdirSync(fs, dir) == ReaddirFrom(fs, dir, 1)

(***************************************************************************)
(* The MinuetWeb object                                                    *)
(*                                                                         *)
(* rootDir is a string or a map: [kind, dir, map], where map is the        *)
(* sequence of mounts [url, dir] in insertion order.  notFound is a        *)
(* boolean or a string: [kind, flag, page].  buffers maps a key to the     *)
(* content stored under it.                                                *)
(***************************************************************************)

\* an excerpt of DefaultMimes
DefaultMimes ==
    (<<"t","x","t">> :> "text/plain") @@ (<<"h","t","m">> :> "text/html")
        @@ (<<"p","n","g">> :> "image/png")

NoMime == "<undefined>"

\* mimes is an object literal: a property read on it also finds what it
\* inherits from Object.prototype (an excerpt: the constructor property,
\* whose value is the function Object)
ObjectPrototype == CONSTRUCTOR :> "function Object() { [native code] }"

NoLogAccess == "<undefined>"

RootString(d) == [kind |-> "string", dir |-> d, map |-> <<>>]
RootMap(m) == [kind |-> "map", dir |-> <<>>, map |-> m]
NotFoundFlag(b) == [kind |-> "boolean", flag |-> b, page |-> <<>>]
NotFoundPage(p) == [kind |-> "string", flag |-> FALSE, page |-> p]

\* enum MinuetWebBufferName
BufferNameNotFound == <<"#","n","o","t","f","o","u","n","d">>
BufferNameListNavigator == <<"#","l","i","s","t","N","a","v","i","g","a","t","o","r">>

\* the bundled listnavigator/index.html: one occurrence of each placeholder
ListTemplate == <<"{url}", "{back}", "{lists}", "{comment}">>

\* the field initialisers of the class
Fields ==
    [ url |-> <<"/">>,
      rootDir |-> RootString(HTDOCS),
      mimes |-> DefaultMimes,
      headers |-> <<>>,
      buffering |-> TRUE,
      bufferingMaxSize |-> 300000,
      directReading |-> FALSE,
      notFound |-> NotFoundFlag(FALSE),
      directoryIndexs |-> <<>>,
      listNavigator |-> FALSE,
      logAccess |-> NoLogAccess,
      buffers |-> <<>>,
      logger |-> FALSE ]

OptionNames == { "url", "rootDir", "mimes", "headers", "buffering",
                 "bufferingMaxSize", "directReading", "notFound",
                 "directoryIndexs", "listNavigator", "logAccess" }

\* if (typeof this.rootDir == "string") this.rootDir = { "/" : this.rootDir }
AsMap(rootDir) ==
    IF rootDir.kind = "string"
    THEN RootMap(<< [url |-> <<"/">>, dir |-> rootDir.dir] >>)
    ELSE rootDir

\* obj[key] = value on an object whose keys are kept in insertion order
RECURSIVE MapPutFrom(_, _, _, _)
MapPutFrom(m, url, dir, i) ==
    IF i > Len(m) THEN Append(m, [url |-> url, dir |-> dir])
    ELSE IF m[i].url = url THEN [m EXCEPT ![i] = [url |-> url, dir |-> dir]]
    ELSE MapPutFrom(m, url, dir, i + 1)

MapPut(m, url, dir) == MapPutFrom(m, url, dir, 1)

\* this.buffers[key] = content
BufferPut(buffers, key, content) ==
    [k \in (DOMAIN buffers) \cup {key} |-> IF k = key THEN content ELSE buffers[k]]

\* this.buffers[key] is truthy (a Buffer is an object: truthy even when empty)
BufferHas(buffers, key) == key \in DOMAIN buffers

\* this.mimes[ext]: an own property, else an inherited one, else undefined
MimeOf(this, ext) ==
    IF ext \in DOMAIN this.mimes THEN this.mimes[ext]
    ELSE IF ext \in DOMAIN ObjectPrototype THEN ObjectPrototype[ext]
    ELSE NoMime

getMime(this, target) == MimeOf(this, Substring(Extname(target), 1))

HasMimeOf(this, ext) ==
    IF ext = <<>> THEN FALSE
    ELSE IF MimeOf(this, ext) = NoMime THEN FALSE
    ELSE TRUE

hasMine(this, target) == HasMimeOf(this, Substring(Extname(target), 1))

\* the key addBuffer computes: every mount whose directory string is a
\* prefix of filePath assigns fileName, so the last such mount decides;
\* undefined when there is none
RECURSIVE FileNameFrom(_, _, _, _)
FileNameFrom(map, filePath, n, fileName) ==
    IF n > Len(map) THEN fileName
    ELSE LET burl == map[n].url
             rootDir == map[n].dir
             url2 == IF burl = <<"/">> THEN <<>> ELSE burl
         IN  IF StartsWith(filePath, rootDir)
             THEN FileNameFrom(map, filePath, n + 1,
                               Collapse(url2 \o Substring(filePath, Len(rootDir))))
             ELSE FileNameFrom(map, filePath, n + 1, fileName)

FileName(rootDir, filePath) == FileNameFrom(AsMap(rootDir).map, filePath, 1, Undefined)

\* the property key of a value used as obj[value]
ToKey(v) == IF v = Undefined THEN UndefinedKey ELSE v

addBuffer(this, filePath, content) ==
    [this EXCEPT !.rootDir = AsMap(this.rootDir),
                 !.buffers = BufferPut(this.buffers,
                                       ToKey(FileName(this.rootDir, filePath)), content)]

\* search(targetPath, url): the result is [this, threw]; threw is set when
\* readdirSync fails because targetPath is not a directory
RECURSIVE search(_, _, _, _)
RECURSIVE SearchList(_, _, _, _, _, _)

\* the file branch of search with the size test turned into >=: a file of
\* exactly bufferingMaxSize bytes is skipped
SearchFile_StrictCap(this, name, filePath, content) ==
    IF ~hasMine(this, name) THEN this
    ELSE IF Len(content) >= this.bufferingMaxSize THEN this
    ELSE addBuffer(this, filePath, content)

\* the file branch of the loop of search: the object after the entry
SearchFile(this, name, filePath, content) ==
    IF ~hasMine(this, name) THEN this
    ELSE IF Len(content) > this.bufferingMaxSize THEN this
    ELSE addBuffer(this, filePath, content)

SearchFileAt(this, fs, name, filePath) ==
    SearchFile(this, name, filePath, readFileSync(fs, filePath))

\* the directory branch: the rest of the list is scanned unless the
\* recursive call threw
SearchRest(r, fs, targetPath, url, list, n) ==
    IF r.threw THEN r ELSE SearchList(r.this, fs, targetPath, url, list, n)

SearchList(this, fs, targetPath, url, list, n) ==
    IF n > Len(list) THEN [this |-> this, threw |-> FALSE]
    ELSE IF list[n].isDirectory
         THEN SearchRest(search(this, fs, targetPath \o <<"/">> \o list[n].name, url),
                         fs, targetPath, url, list, n + 1)
         ELSE SearchList(SearchFileAt(this, fs, list[n].name,
                                      targetPath \o <<"/">> \o list[n].name),
                         fs, targetPath, url, list, n + 1)

SearchDir(this, fs, targetPath, url, target) ==
    IF target.kind # "dir" THEN [this |-> this, threw |-> TRUE]
    ELSE SearchList(this, fs, targetPath, url, readdirSync(fs, target.node), 1)

search(this, fs, targetPath, url) ==
    SearchDir(this, fs, targetPath, url, Resolve(fs, targetPath))

\* the loop of updateBuffer over Object.keys(this.rootDir)
RECURSIVE UpdateMounts(_, _, _, _)

UpdateNext(s, fs, r, n) == IF s.threw THEN s ELSE UpdateMounts(s.this, fs, r, n)

UpdateMounts(this, fs, r, n) ==
    IF n > Len(r) THEN [this |-> this, threw |-> FALSE]
    ELSE UpdateNext(search(this, fs, r[n].dir, r[n].url), fs, r, n + 1)

\* the start of updateBuffer without this.buffers = {}: the scan adds to
\* what the buffer holds
Cleared_Kept(this) == [this EXCEPT !.rootDir = AsMap(this.rootDir)]

\* this.buffers = {} and the normalisation of rootDir
Cleared(this) == [this EXCEPT !.buffers = <<>>, !.rootDir = AsMap(this.rootDir)]

\* the not-found page is read into its sentinel key
WithNotFound(t, fs) ==
    IF t.notFound.kind = "string"
    THEN [t EXCEPT !.buffers = BufferPut(t.buffers, BufferNameNotFound,
                                         readFileSync(fs, t.notFound.page))]
    ELSE t

\* the listing template is read into its sentinel key
WithListNavigator(t) ==
    IF t.listNavigator
    THEN [t EXCEPT !.buffers = BufferPut(t.buffers, BufferNameListNavigator, ListTemplate)]
    ELSE t

\* the end of updateBuffer with the read of the not-found page inside a
\* try block that swallows the error: the call returns normally
UpdateSentinels_Swallow(m, fs) ==
    IF m.threw THEN m
    ELSE IF m.this.notFound.kind = "string" /\ ~isFile(fs, m.this.notFound.page)
    THEN [this |-> WithListNavigator(m.this), threw |-> FALSE]
    ELSE [this |-> WithListNavigator(WithNotFound(m.this, fs)), threw |-> FALSE]

\* the end of updateBuffer, after the scan m of the mounts: a scan that threw
\* ends the call, and so does a not-found page that cannot be read
UpdateSentinels(m, fs) ==
    IF m.threw THEN m
    ELSE IF m.this.notFound.kind = "string" /\ ~isFile(fs, m.this.notFound.page)
    THEN [this |-> m.this, threw |-> TRUE]
    ELSE [this |-> WithListNavigator(WithNotFound(m.this, fs)), threw |-> FALSE]

\* updateBuffer that, instead of clearing the buffer first, scans into it and
\* then sweeps out the keys it held before the scan
Swept(m, this) ==
    [this |-> [m.this EXCEPT !.buffers =
                  [k \in (DOMAIN m.this.buffers) \ (DOMAIN this.buffers) |-> m.this.buffers[k]]],
     threw |-> m.threw]

updateBuffer_SweepAfter(this, fs) ==
    IF ~this.buffering THEN [this |-> this, threw |-> FALSE]
    ELSE UpdateSentinels(
            Swept(UpdateMounts([this EXCEPT !.rootDir = AsMap(this.rootDir)], fs,
                               AsMap(this.rootDir).map, 1), this), fs)

\* updateBuffer(): the result is [this, threw]; threw is set when a read of
\* the filesystem failed, and this is then the object as the throw left it
updateBuffer(this, fs) ==
    IF ~this.buffering THEN [this |-> this, threw |-> FALSE]
    ELSE UpdateSentinels(UpdateMounts(Cleared(this), fs, AsMap(this.rootDir).map, 1), fs)

\* setting(options): options holds the fields that are not undefined
setting(this, fs, options) ==
    updateBuffer([f \in DOMAIN this |->
                     IF f \in OptionNames /\ f \in DOMAIN options
                     THEN options[f] ELSE this[f]], fs)

SearchAdded(t0, fs, url, rootDir) ==
    IF t0.buffering THEN search(t0, fs, rootDir, url)
    ELSE [this |-> t0, threw |-> FALSE]

addRootDir(this, fs, url, rootDir) ==
    SearchAdded([this EXCEPT !.rootDir = RootMap(MapPut(AsMap(this.rootDir).map, url, rootDir))],
                fs, url, rootDir)

(***************************************************************************)
(* The response object (http.ServerResponse) as listen uses it:            *)
(* statusCode 0 stands for "never assigned"; body is the sequence of the   *)
(* chunks passed to res.write.                                             *)
(***************************************************************************)

FreshResponse == [statusCode |-> 0, headers |-> <<>>, body |-> <<>>, ended |-> FALSE]

ErrorText == <<"E","R","R","O","R">>

\* setHeader(res): every configured header is set on the response
setHeader(this, res) ==
    [res EXCEPT !.headers =
        [h \in (DOMAIN res.headers) \cup (DOMAIN this.headers) |->
            IF h \in DOMAIN this.headers THEN this.headers[h] ELSE res.headers[h]]]

\* the path readFile tries for a mount: rest is "" or "/" + index
TargetFullPath(this, mount, targetPath, rest) ==
    Collapse(IF this.url # <<"/">>
             THEN mount.dir \o <<"/">>
                    \o Substring(Substring(targetPath, Len(this.url)), Len(mount.url)) \o rest
             ELSE mount.dir \o <<"/">> \o Substring(targetPath, Len(mount.url)) \o rest)

\* if (fs.existsSync(p)) if (fs.statSync(p).isFile()) decisionPath = p
Accept(fs, targetFullPath, otherwise) ==
    IF isFile(fs, targetFullPath) THEN targetFullPath ELSE otherwise

\* the inner loop of readFile over directoryIndexs: the first index file
\* of the mount that is a regular file, else the decision so far
RECURSIVE IndexDecision(_, _, _, _, _, _)
IndexDecision(this, fs, mount, targetPath, n2, decisionPath) ==
    IF n2 > Len(this.directoryIndexs) THEN decisionPath
    ELSE Accept(fs, TargetFullPath(this, mount, targetPath,
                                   <<"/">> \o this.directoryIndexs[n2]),
                IndexDecision(this, fs, mount, targetPath, n2 + 1, decisionPath))

\* the outer loop of readFile over the mounts: a direct regular file ends
\* the loop; an index match ends only the inner loop
RECURSIVE DecisionPath(_, _, _, _, _, _)
DecisionPath(this, fs, c, targetPath, n, decisionPath) ==
    IF n > Len(c) THEN decisionPath
    ELSE Accept(fs, TargetFullPath(this, c[n], targetPath, <<>>),
                DecisionPath(this, fs, c, targetPath, n + 1,
                             IndexDecision(this, fs, c[n], targetPath, 1, decisionPath)))

\* the end of readFile, once the loop over the mounts has decided
FromDisk(t0, fs, decisionPath) ==
    IF decisionPath = Undefined
    THEN [this |-> t0, found |-> FALSE, content |-> <<>>, mime |-> NoMime,
          decisionPath |-> Undefined, threw |-> FALSE]
    ELSE [this |-> t0, found |-> TRUE, content |-> readFileSync(fs, decisionPath),
          mime |-> getMime(t0, decisionPath),
          decisionPath |-> decisionPath, threw |-> FALSE]

\* the disk part of readFile
ReadDisk(this, fs, targetPath) ==
    IF targetPath = Undefined
    THEN [this |-> this, found |-> FALSE, content |-> <<>>, mime |-> NoMime,
          decisionPath |-> Undefined, threw |-> TRUE]
    ELSE FromDisk([this EXCEPT !.rootDir = AsMap(this.rootDir)], fs,
                  DecisionPath(this, fs, AsMap(this.rootDir).map, targetPath, 1, Undefined))

\* readFile with the buffer lookup left out: every call goes to the disk
readFile_NoBuffer(this, fs, targetPath) == ReadDisk(this, fs, targetPath)

\* readFile(targetPath): [this, found, content, mime, decisionPath, threw].
\* decisionPath is the file read from disk, Undefined when the content came
\* from the buffer.  threw: path.extname rejects a target that is no string.
readFile(this, fs, targetPath) ==
    IF this.buffering /\ BufferHas(this.buffers, ToKey(targetPath))
    THEN [this |-> this, found |-> targetPath # Undefined,
          content |-> this.buffers[ToKey(targetPath)],
          mime |-> IF targetPath = Undefined THEN NoMime ELSE getMime(this, targetPath),
          decisionPath |-> Undefined, threw |-> targetPath = Undefined]
    ELSE ReadDisk(this, fs, targetPath)

\* the answer of error when notFound is a page: the page with 404 when its
\* content could be read, else "ERROR" with the status left alone
NotFoundAnswer(res, readable, content) ==
    IF readable
    THEN [res |-> [res EXCEPT !.statusCode = 404,
                              !.body = Append(res.body, content),
                              !.ended = TRUE],
          ret |-> TRUE]
    ELSE [res |-> [res EXCEPT !.body = Append(res.body, ErrorText),
                              !.ended = TRUE],
          ret |-> TRUE]

\* error(res): [res, ret]
error(this, fs, res) ==
    IF this.notFound.kind = "boolean"
    THEN IF ~this.notFound.flag THEN [res |-> res, ret |-> FALSE]
         ELSE [res |-> [res EXCEPT !.statusCode = 404, !.ended = TRUE], ret |-> TRUE]
    ELSE IF this.buffering
    THEN NotFoundAnswer(res, BufferHas(this.buffers, BufferNameNotFound),
                        this.buffers[BufferNameNotFound])
    ELSE NotFoundAnswer(res, isFile(fs, this.notFound.page),
                        readFileSync(fs, this.notFound.page))

\* the disk check of getUrl: some mount has rootDir + "/" + url_
RECURSIVE ExistsInSomeMount(_, _, _, _)
ExistsInSomeMount(fs, c, url_, n2) ==
    IF n2 > Len(c) THEN FALSE
    ELSE IF existsSync(fs, Collapse(c[n2].dir \o <<"/">> \o url_)) THEN TRUE
    ELSE ExistsInSomeMount(fs, c, url_, n2 + 1)

\* the loop of getUrl over urlList: [this, url]
RECURSIVE DecisionUrl(_, _, _, _, _)
DecisionUrl(this, fs, urlList, n, baseUrl) ==
    IF n > Len(urlList) THEN [this |-> this, url |-> baseUrl]
    ELSE LET url_ == urlList[n]
             t0 == [this EXCEPT !.rootDir = AsMap(this.rootDir)]
         IN  IF this.buffering /\ BufferHas(this.buffers, url_)
             THEN [this |-> this, url |-> url_]
             ELSE IF this.buffering /\ ~this.directReading
             THEN DecisionUrl(this, fs, urlList, n + 1, baseUrl)
             ELSE IF ExistsInSomeMount(fs, t0.rootDir.map, url_, 1)
             THEN [this |-> t0, url |-> url_]
             ELSE DecisionUrl(t0, fs, urlList, n + 1, baseUrl)

\* if (url != "/" && url[url.length - 1] == "/") url = url.substring(0, url.length - 1)
DropSlash(url0) ==
    IF url0 # <<"/">> /\ Len(url0) > 0 /\ url0[Len(url0)] = "/"
    THEN SubSeq(url0, 1, Len(url0) - 1) ELSE url0

UrlList(this, url) ==
    [n \in 1..Len(this.directoryIndexs) |->
        Collapse(url \o <<"/">> \o this.directoryIndexs[n])]

\* getUrl(baseUrl): [this, url]
getUrl(this, fs, baseUrl) ==
    DecisionUrl(this, fs, UrlList(this, DropSlash(BeforeQuery(baseUrl))), 1, baseUrl)

\* getDirectories(url): the buffer keys one segment below url
getDirectories(this, url) ==
    IF this.buffering
    THEN { file \in DOMAIN this.buffers :
              StartsWith(file, url) /\ Len(SplitSlash(Substring(file, Len(url)))) = 2 }
    ELSE {}

\* text.split(placeholder).join(value) on the template
RECURSIVE Substitute(_, _, _)
Substitute(text, placeholder, value) ==
    IF text = <<>> THEN <<>>
    ELSE (IF Head(text) = placeholder THEN value ELSE <<Head(text)>>)
            \o Substitute(Tail(text), placeholder, value)

\* the rows of the listing, one per listed key
RECURSIVE Rows(_)

RowOf(l_) == <<"<tr>">> \o l_ \o <<"|">> \o Basename(l_) \o <<"</tr>">>

RowsFrom(list, l_) == RowOf(l_) \o Rows(list \ {l_})

Rows(list) ==
    IF list = {} THEN <<>>
    ELSE RowsFrom(list, CHOOSE f \in list : \A g \in list : Len(f) <= Len(g))

\* the listing isDirectory writes for url
Listing(this, res, url) ==
    [res |-> [res EXCEPT
                !.body = Append(res.body,
                    Substitute(
                      Substitute(
                        Substitute(
                          Substitute(this.buffers[BufferNameListNavigator], "{url}", url),
                          "{back}", Dirname(url)),
                        "{lists}", Rows(getDirectories(this, url))),
                      "{comment}", <<"Minuet Server | ", "<date>">>)),
                !.ended = TRUE],
     ret |-> TRUE, threw |-> FALSE]

DropLastSlash(url0) ==
    IF Len(url0) > 0 /\ url0[Len(url0)] = "/"
    THEN SubSeq(url0, 1, Len(url0) - 1) ELSE url0

\* isDirectory(req, res): [res, ret, threw]; threw when the template is
\* not in the buffer
isDirectory(this, reqUrl, res) ==
    IF ~this.buffering THEN [res |-> res, ret |-> TRUE, threw |-> FALSE]
    ELSE IF ~BufferHas(this.buffers, BufferNameListNavigator)
    THEN [res |-> res, ret |-> FALSE, threw |-> TRUE]
    ELSE Listing(this, res, DropLastSlash(BeforeQuery(reqUrl)))

\* log with the test of logMode left out: logger.write is called whenever
\* a logger is attached
log_NoModeTest(this, logMode, res) ==
    IF this.logger THEN << [logMode |-> logMode, res |-> res] >> ELSE <<>>

\* log(logMode, req, res): the calls of logger.write it makes, each with the
\* log mode and the response as it is when the call is made
log(this, logMode, res) ==
    IF logMode = NoLogAccess \/ logMode = "" THEN <<>>
    ELSE IF this.logger THEN << [logMode |-> logMode, res |-> res] >>
    ELSE <<>>

\* what listen leaves behind when no file is served
Outcome(this, res, ret, threw) ==
    [this |-> this, res |-> res, ret |-> ret, threw |-> threw,
     decisionPath |-> Undefined, fromBuffer |-> FALSE, logged |-> <<>>]

\* listen returns what error returned
Failed(this, e) == Outcome(this, e.res, e.ret, FALSE)

\* listen returns true after isDirectory
Listed(this, d) == Outcome(this, d.res, d.ret, d.threw)

\* the 200 answer: status, headers, body, end
OkResponse(t1, buff) ==
    [setHeader(t1, [FreshResponse EXCEPT !.statusCode = 200])
        EXCEPT !.body = <<buff.content>>, !.ended = TRUE]

\* the access log is written with the finished response res, then listen
\* returns true
Logged(t1, buff, res) ==
    [this |-> t1, res |-> res, ret |-> TRUE, threw |-> FALSE,
     decisionPath |-> buff.decisionPath,
     fromBuffer |-> buff.decisionPath = Undefined,
     logged |-> log(t1, t1.logAccess, res)]

Answered(t1, buff) == Logged(t1, buff, OkResponse(t1, buff))

\* listen after readFile
Loaded(buff, fs) ==
    IF ~buff.found \/ buff.mime = NoMime
    THEN Failed(buff.this, error(buff.this, fs, FreshResponse))
    ELSE Answered([buff.this EXCEPT !.headers =
                      ("content-type" :> buff.mime) @@ buff.this.headers], buff)

\* listen after getUrl
Resolved(g, fs, reqUrl) ==
    IF g.url = <<>>
    THEN IF g.this.listNavigator
         THEN Listed(g.this, isDirectory(g.this, reqUrl, FreshResponse))
         ELSE Failed(g.this, error(g.this, fs, FreshResponse))
    ELSE Loaded(readFile(g.this, fs, g.url), fs)

\* listen(req, res) on a fresh response: [this, res, ret, threw, ...];
\* decisionPath and fromBuffer tell where the bytes of a 200 came from
listen(this, fs, reqUrl) == Resolved(getUrl(this, fs, BeforeQuery(reqUrl)), fs, reqUrl)

(***************************************************************************)
(* The state machine: one MinuetWeb object, the filesystem it serves, and  *)
(* the callers' operations on it.                                          *)
(***************************************************************************)

VARIABLES
    this,      \* the MinuetWeb object
    fs,        \* the filesystem
    op,        \* the operation that ran last
    threw,     \* whether that operation threw
    req,       \* the url of the last request passed to listen
    out,       \* what the last listen did: response, return value, source
    arg,       \* the arguments of the last addBuffer
    calls      \* the number of operations other than listen so far

vars == <<this, fs, op, threw, req, out, arg, calls>>

\* the number of operations other than listen explored after construction
MaxCalls == 2

\* the size of the file written to disk
MaxFileSize == 2

U == <<"/","u">>
MountA == [url |-> <<"/","a">>, dir |-> DA]
MountB == [url |-> <<"/","b">>, dir |-> DB]

\* the mounts passed to addRootDir: a new prefix, written with repeated
\* slashes, and the prefix of MountA given the directory of MountB
MountC == [url |-> <<"/","c","/","/">>, dir |-> DB]
MountAlias == [url |-> MountA.url, dir |-> DB]
AddedMounts == { MountC, MountAlias }

\* the options objects passed to the constructor
ConstructorOptions ==
    { [rootDir |-> RootString(DA)],
      [rootDir |-> RootString(DA), directoryIndexs |-> <<I_HTM, J_HTM>>,
       bufferingMaxSize |-> 1],
      [rootDir |-> RootString(DA), directoryIndexs |-> <<I_HTM>>, url |-> U],
      [rootDir |-> RootString(DA), buffering |-> FALSE,
       directoryIndexs |-> <<I_HTM, J_HTM>>, notFound |-> NotFoundPage(N_HTM)],
      [rootDir |-> RootMap(<<MountA, MountB>>), directoryIndexs |-> <<I_HTM>>],
      [rootDir |-> RootMap(<<MountA, MountB>>), directoryIndexs |-> <<I_HTM>>,
       buffering |-> FALSE, notFound |-> NotFoundFlag(TRUE)] }

\* a mount on a directory that does not exist
MountE == [url |-> <<"/","e">>, dir |-> <<"e">>]

\* the options objects passed to setting
SettingOptions ==
    { [buffering |-> FALSE],
      [directReading |-> TRUE, listNavigator |-> TRUE, logAccess |-> "access"],
      [notFound |-> NotFoundPage(N_HTM)],
      [rootDir |-> RootMap(<<MountA, MountE>>)] }

\* the request urls passed to listen
Requests ==
    { <<"/","?","q">>, <<"?","q">>,
      <<"/">> \o X_TXT,
      <<"/","a">>, <<"/","b","/">> \o X_TXT,
      <<"/",".",".","/">> \o K_TXT,
      U \o <<"/">> \o X_TXT }

\* the files removed from disk
RemovedFiles == { <<N_HTM>> }

\* the arguments of addBuffer
AddedPaths == { DA \o <<"/">> \o X_TXT, <<"e","/">> \o X_TXT }
AddedContent == <<"Q">>

NoArg == [filePath |-> <<>>, content |-> <<>>]

\* what is kept of a listen call: the response, the return value, the
\* source of the bytes served and the calls of logger.write
Report(o) ==
    [res |-> o.res, ret |-> o.ret, decisionPath |-> o.decisionPath,
     fromBuffer |-> o.fromBuffer, logged |-> o.logged]

NoReport ==
    [res |-> FreshResponse, ret |-> FALSE, decisionPath |-> Undefined,
     fromBuffer |-> FALSE, logged |-> <<>>]

InitialFs ==
    [f \in Files |-> IF f = <<DA, J_HTM>> THEN Bytes(f, 1)
                     ELSE IF f = <<DA, I_HTM>> THEN Bytes(f, 2)
                     ELSE Bytes(f, 1)]

\* the constructions after which a logger is attached to the object
\* (web.logger = logger): no options, and the first of ConstructorOptions
LoggerOptions == { <<>>, [rootDir |-> RootString(DA)] }

\* the object exists when its constructor returned; its logger field is
\* assigned afterwards
Constructed(c, logger) == ~c.threw /\ this = [c.this EXCEPT !.logger = logger]

Init ==
    /\ fs = InitialFs
    /\ \E options \in ConstructorOptions \cup {<<>>} :
          Constructed(setting(Fields, fs, options), options \in LoggerOptions)
    /\ op = "constructor"
    /\ threw = FALSE
    /\ req = <<>>
    /\ out = NoReport
    /\ arg = NoArg
    /\ calls = 0

\* the request and the arguments of an earlier call are gone once another
\* operation runs
Forget ==
    /\ req' = <<>>
    /\ out' = NoReport
    /\ arg' = NoArg

\* the object as a call left it, and whether the call threw
Returned(r) ==
    /\ this' = r.this
    /\ threw' = r.threw

\* the same for listen, with what it did to the response
Responded(o) ==
    /\ this' = o.this
    /\ out' = Report(o)
    /\ threw' = o.threw

\* one more operation other than listen
Call ==
    /\ calls < MaxCalls
    /\ calls' = calls + 1

Setting(options) ==
    /\ Call
    /\ Returned(setting(this, fs, options))
    /\ op' = "setting"
    /\ Forget
    /\ UNCHANGED fs

UpdateBuffer ==
    /\ Call
    /\ Returned(updateBuffer(this, fs))
    /\ op' = "updateBuffer"
    /\ Forget
    /\ UNCHANGED fs

AddRootDir(url, rootDir) ==
    /\ Call
    /\ Returned(addRootDir(this, fs, url, rootDir))
    /\ op' = "addRootDir"
    /\ Forget
    /\ UNCHANGED fs

AddBuffer(filePath, content) ==
    /\ Call
    /\ this' = addBuffer(this, filePath, content)
    /\ threw' = FALSE
    /\ op' = "addBuffer"
    /\ arg' = [filePath |-> filePath, content |-> content]
    /\ req' = <<>>
    /\ out' = NoReport
    /\ UNCHANGED fs

Listen(reqUrl) ==
    /\ Responded(listen(this, fs, reqUrl))
    /\ req' = reqUrl
    /\ op' = "listen"
    /\ arg' = NoArg
    /\ UNCHANGED <<fs, calls>>

\* a file is written behind the object's back
WriteFile(f, size) ==
    /\ Call
    /\ fs' = [fs EXCEPT ![f] = Bytes(f, size)]
    /\ fs' # fs
    /\ op' = "writeFile"
    /\ threw' = FALSE
    /\ Forget
    /\ UNCHANGED this

\* a file is removed behind the object's back
RemoveFile(f) ==
    /\ Call
    /\ fs[f] # Absent
    /\ fs' = [fs EXCEPT ![f] = Absent]
    /\ op' = "removeFile"
    /\ threw' = FALSE
    /\ Forget
    /\ UNCHANGED this

Next ==
    \/ \E options \in SettingOptions : Setting(options)
    \/ UpdateBuffer
    \/ \E mount \in AddedMounts : AddRootDir(mount.url, mount.dir)
    \/ \E filePath \in AddedPaths : AddBuffer(filePath, AddedContent)
    \/ \E reqUrl \in Requests : Listen(reqUrl)
    \/ WriteFile(<<DA, X_TXT>>, MaxFileSize)
    \/ \E f \in RemovedFiles : RemoveFile(f)

Spec == Init /\ [][Next]_vars

(***************************************************************************)
(* Vocabulary of the properties                                            *)
(***************************************************************************)

Sentinels == { BufferNameNotFound, BufferNameListNavigator }

Mounts == AsMap(this.rootDir).map

\* the path of the last request, without its query string
ReqPath == BeforeQuery(req)

\* the last operation was a listen call that returned
Listened == op = "listen" /\ ~threw

\* the last listen answered 200 with one chunk of bytes
Served == Listened /\ out.res.statusCode = 200 /\ Len(out.res.body) = 1

\* the directory the bytes of a response belong to: the first segment of the
\* file that has this content, or of the path the content was added under
SourceDir(content) ==
    IF content = AddedContent THEN DA
    ELSE LET f == CHOOSE g \in Files : Tag(g) = content[1]
         IN  IF Len(f) = 1 THEN <<>> ELSE f[1]

\* the url under which the file buffered as key is published
PublicUrl(key) == IF this.url = <<"/">> THEN key ELSE this.url \o key

\* the request path with a trailing slash dropped
DirPath == IF ReqPath # <<"/">> /\ Len(ReqPath) > 0 /\ ReqPath[Len(ReqPath)] = "/"
           THEN SubSeq(ReqPath, 1, Len(ReqPath) - 1) ELSE ReqPath

(***************************************************************************)
(* C1: listen returns true exactly when it has written and ended a         *)
(* response, and returns false only when notFound is the boolean false,    *)
(* and then leaves the response untouched.                                 *)
(* Violated: with buffering off and listNavigator on, a request whose path *)
(* is empty returns true from the unfinished branch of isDirectory and     *)
(* nothing is written.                                                     *)
(***************************************************************************)
C1_ReturnTellsWritten ==
    Listened =>
        /\ out.ret = out.res.ended
        /\ ~out.ret => (this.notFound = NotFoundFlag(FALSE) /\ out.res = FreshResponse)

(***************************************************************************)
(* C2: with several mounts, a 200 answer to a request path that starts     *)
(* with the url prefix of a mount carries the content of a file under that *)
(* mount's directory.                                                      *)
(* Violated: readFile strips burl.length characters without comparing them *)
(* with burl, so "/b/x.txt" read from disk is answered from the first      *)
(* mount's directory.                                                      *)
(***************************************************************************)
C2_MountIsolation ==
    (Served /\ Len(Mounts) > 1) =>
        \A n \in 1..Len(Mounts) :
            StartsWith(ReqPath, Mounts[n].url \o <<"/">>) =>
                SourceDir(out.res.body[1]) = Mounts[n].dir

(***************************************************************************)
(* C3: the bytes of every 200 answer are those of a file inside one of the *)
(* configured root directories.                                            *)
(* Violated: "/../k.txt" is joined to the root directory unresolved and    *)
(* the file beside the root is read and returned.                          *)
(***************************************************************************)
C3_InsideRoots ==
    Served => \E n \in 1..Len(Mounts) : SourceDir(out.res.body[1]) = Mounts[n].dir

(***************************************************************************)
(* C4: with buffering on and directReading off, a file of a root directory *)
(* that is not in the buffer is never answered from disk.                  *)
(* Violated: readFile falls through to the disk on every buffer miss; it   *)
(* never looks at directReading.                                           *)
(***************************************************************************)
C4_NoDirectReading ==
    (Served /\ this.buffering /\ ~this.directReading) =>
        \/ out.fromBuffer
        \/ BufferHas(this.buffers, ToKey(FileName(this.rootDir, out.decisionPath)))
        \/ \A n \in 1..Len(Mounts) : SourceDir(out.res.body[1]) # Mounts[n].dir

(***************************************************************************)
(* C5: with buffering on, a request for the url of a buffered file, for    *)
(* any base url, is answered with the buffered bytes and without a read    *)
(* from disk.                                                              *)
(* Violated: the buffer keys do not carry the base url, so with url "/u"   *)
(* the request "/u/x.txt" misses the buffer and is read from disk.         *)
(***************************************************************************)
C5_BufferedNotReread ==
    (Listened /\ this.buffering) =>
        \A key \in (DOMAIN this.buffers) \ Sentinels :
            (ReqPath = PublicUrl(key) /\ getMime(this, key) # NoMime) =>
                /\ out.fromBuffer
                /\ out.res.body = << this.buffers[key] >>

(***************************************************************************)
(* C6: for a directory request, listen with buffering on (buffer freshly   *)
(* rebuilt) and listen with buffering off give the same status and body.   *)
(* Violated: with two mounts the disk path of readFile answers "/a" with   *)
(* the index file of the last mount (see C2), the buffer with "/a/i.htm".  *)
(***************************************************************************)
DirectoryRequests == { <<"/","?","q">>, <<"/","a">> }

C6_SameIndexBufferedOrLive ==
    \A r \in DirectoryRequests :
        LET b == updateBuffer([this EXCEPT !.buffering = TRUE], fs)
            buffered == listen(b.this, fs, r)
            live == listen([this EXCEPT !.buffering = FALSE], fs, r)
        IN  ~b.threw =>
                /\ buffered.res.statusCode = live.res.statusCode
                /\ buffered.res.body = live.res.body

(***************************************************************************)
(* C7: a directory request is answered with the first index candidate, in  *)
(* configured order, that is found (in the buffer when buffering, on disk  *)
(* under the mount of the path otherwise): 200, that file's bytes, its     *)
(* mime type.                                                              *)
(* Violated: with two mounts and buffering off, "/a" is answered with the  *)
(* index file of mount "/b" (the defect of C2).                            *)
(***************************************************************************)
Candidate(n) == Collapse(DirPath \o <<"/">> \o this.directoryIndexs[n])

\* the file a url names on disk: below the directory of the mount whose
\* prefix starts the url
RECURSIVE UrlFileFrom(_, _)
UrlFileFrom(u, n) ==
    IF n > Len(Mounts) THEN Undefined
    ELSE IF StartsWith(u, Mounts[n].url)
         THEN Collapse(Mounts[n].dir \o <<"/">> \o Substring(u, Len(Mounts[n].url)))
         ELSE UrlFileFrom(u, n + 1)

UrlFile(u) == UrlFileFrom(u, 1)

CandidateFound(n) ==
    IF this.buffering THEN BufferHas(this.buffers, Candidate(n))
    ELSE UrlFile(Candidate(n)) # Undefined /\ isFile(fs, UrlFile(Candidate(n)))

CandidateBytes(n) ==
    IF this.buffering THEN this.buffers[Candidate(n)]
    ELSE readFileSync(fs, UrlFile(Candidate(n)))

C7_FirstIndexServed ==
    (Listened /\ req \in DirectoryRequests /\ this.url = <<"/">>) =>
        \A n \in 1..Len(this.directoryIndexs) :
            (CandidateFound(n) /\ \A m \in 1..(n - 1) : ~CandidateFound(m)) =>
                /\ out.res.statusCode = 200
                /\ out.res.body = << CandidateBytes(n) >>
                /\ out.res.headers["content-type"] = getMime(this, Candidate(n))

(***************************************************************************)
(* C8: when notFound is true or a page path, a request that misses is      *)
(* answered with status 404 and listen returns true, also when the page    *)
(* cannot be read and the body is "ERROR".                                 *)
(* Violated: the statement that sets 404 comes after the read of the page  *)
(* inside the try block, so the "ERROR" answer carries no 404.             *)
(***************************************************************************)
Missed == Listened /\ out.res.statusCode # 200 /\ ~(ReqPath = <<>> /\ this.listNavigator)

C8_MissIs404 ==
    (Missed /\ this.notFound # NotFoundFlag(FALSE)) =>
        /\ out.ret
        /\ out.res.statusCode = 404
        /\ out.res.ended

(***************************************************************************)
(* C9: round trip.  After addBuffer(filePath, content), readFile on the    *)
(* key computed for filePath returns the content that was added.           *)
(* As stated, for any path and whatever the configuration, this fails:     *)
(* with buffering off readFile does not look into the buffer, and a path   *)
(* below no mount directory has no key (the content is stored under        *)
(* "undefined", and readFile(undefined) throws).                           *)
(***************************************************************************)
AddedKey == FileName(this.rootDir, arg.filePath)

C9_RoundTripAnyPath ==
    op = "addBuffer" =>
        LET r == readFile(this, fs, AddedKey)
        IN  ~r.threw /\ r.found /\ r.content = arg.content

\* C9 as amended: with buffering enabled, and for a filePath that starts
\* with the directory of some mount, readFile on the key computed for
\* filePath returns the added content, from the buffer.
C9_RoundTrip ==
    (op = "addBuffer" /\ this.buffering /\ AddedKey # Undefined) =>
        LET r == readFile(this, fs, AddedKey)
        IN  ~r.threw /\ r.found /\ r.content = arg.content /\ r.decisionPath = Undefined

\* an entry was added under a key whose file on disk holds other bytes
C9_Witness ==
    /\ op = "addBuffer" /\ this.buffering /\ AddedKey # Undefined
    /\ this.buffers[AddedKey] = AddedContent
    /\ fs[<<DA, X_TXT>>] # Absent /\ fs[<<DA, X_TXT>>] # AddedContent

(***************************************************************************)
(* C10: idempotence of the rebuild.  With the filesystem and the           *)
(* configuration unchanged, a second updateBuffer leaves the buffer as the *)
(* first one made it, whatever the buffer held before the first.           *)
(***************************************************************************)
C10_RebuildIdempotent ==
    LET once == updateBuffer(this, fs)
        twice == updateBuffer(once.this, fs)
    IN  /\ twice.this.buffers = once.this.buffers
        /\ twice.threw = once.threw
        /\ op = "updateBuffer" => once.this.buffers = this.buffers

\* updateBuffer has run and filled the buffer
C10_Witness ==
    /\ op = "updateBuffer" /\ ~threw /\ this.buffering
    /\ (DOMAIN this.buffers) \ Sentinels # {}
    /\ calls = MaxCalls

\* the path string of a file node, as search builds it
RECURSIVE PathOf(_)
PathOf(f) == IF Len(f) = 1 THEN f[1] ELSE f[1] \o <<"/">> \o PathOf(Tail(f))

\* the files on disk below the directory of some mount
ScannedFiles ==
    { f \in Files : fs[f] # Absent
                     /\ \E n \in 1..Len(Mounts) : StartsWith(PathOf(f), Mounts[n].dir \o <<"/">>) }

\* the last operation was a rebuild of the buffer that returned
Rebuilt == op \in { "constructor", "setting", "updateBuffer" } /\ ~threw /\ this.buffering

(***************************************************************************)
(* C11: size cap boundary.  After a scan, a file with a recognised         *)
(* extension is in the buffer, with its bytes, exactly when its size is    *)
(* less than or equal to bufferingMaxSize.                                 *)
(***************************************************************************)
C11_SizeCapBoundary ==
    Rebuilt =>
        \A f \in ScannedFiles :
            hasMine(this, PathOf(f)) =>
                /\ BufferHas(this.buffers, ToKey(FileName(this.rootDir, PathOf(f))))
                        <=> Len(fs[f]) <= this.bufferingMaxSize
                /\ Len(fs[f]) <= this.bufferingMaxSize =>
                        this.buffers[ToKey(FileName(this.rootDir, PathOf(f)))] = fs[f]

\* a rebuild met a file of exactly bufferingMaxSize bytes, which is in the
\* buffer, and a file one byte larger, which is not
C11_Witness ==
    /\ Rebuilt
    /\ \E f, g \in ScannedFiles :
            /\ hasMine(this, PathOf(f)) /\ hasMine(this, PathOf(g))
            /\ Len(fs[f]) = this.bufferingMaxSize
            /\ Len(fs[g]) = this.bufferingMaxSize + 1
            /\ BufferHas(this.buffers, ToKey(FileName(this.rootDir, PathOf(f))))
            /\ ~BufferHas(this.buffers, ToKey(FileName(this.rootDir, PathOf(g))))

\* the directory url isDirectory lists for the last request
ListUrl == DropLastSlash(ReqPath)

\* no index candidate of the last request is in the buffer or on disk
NoIndexFile ==
    \A n \in 1..Len(this.directoryIndexs) :
        /\ ~BufferHas(this.buffers, Candidate(n))
        /\ ~ExistsInSomeMount(fs, Mounts, Candidate(n), 1)

(***************************************************************************)
(* C12: with listNavigator and buffering on, a request for a directory     *)
(* path that has buffered children and no index file is answered with the  *)
(* listing page of that directory, and listen returns true.                *)
(* Violated: getUrl returns the request path itself when no index          *)
(* candidate is found, so for a path that is not empty listen never takes  *)
(* the listNavigator branch; readFile misses and error answers.            *)
(***************************************************************************)
C12_ListingReached ==
    (/\ Listened /\ this.buffering /\ this.listNavigator
     /\ BufferHas(this.buffers, BufferNameListNavigator)
     /\ getDirectories(this, ListUrl) # {}
     /\ NoIndexFile) =>
        /\ out.ret
        /\ out.res.ended
        /\ out.res.body = Listing(this, FreshResponse, ListUrl).res.body

\* the first accepted regular file in mount-major order: the mounts in
\* insertion order, in a mount the direct path and then the index names,
\* and the first mount with a match ends the search
RECURSIVE FirstMatch(_, _, _)
FirstMatch(c, targetPath, n) ==
    IF n > Len(c) THEN Undefined
    ELSE IF isFile(fs, TargetFullPath(this, c[n], targetPath, <<>>))
    THEN TargetFullPath(this, c[n], targetPath, <<>>)
    ELSE IF IndexDecision(this, fs, c[n], targetPath, 1, Undefined) # Undefined
    THEN IndexDecision(this, fs, c[n], targetPath, 1, Undefined)
    ELSE FirstMatch(c, targetPath, n + 1)

(***************************************************************************)
(* C13: on a buffer miss readFile returns the first accepted regular file  *)
(* in mount-major order; a match in a later mount never replaces a match   *)
(* of an earlier mount.                                                    *)
(* Violated: the break after an index match leaves only the inner loop, so *)
(* the loop over the mounts goes on and a later mount's match overwrites   *)
(* decisionPath.                                                           *)
(***************************************************************************)
C13_MountMajorFirst ==
    (Served /\ ~out.fromBuffer) =>
        out.decisionPath = FirstMatch(Mounts, getUrl(this, fs, ReqPath).url, 1)

(***************************************************************************)
(* C14: in every reachable state, every buffer entry other than the        *)
(* sentinels has a key whose extension is in mimes and a content of at     *)
(* most bufferingMaxSize bytes.                                            *)
(* Violated: addBuffer stores what it is given without looking at the      *)
(* extension or the size, and a path below no mount is stored under the    *)
(* key "undefined", which has no extension.                                *)
(***************************************************************************)
C14_OnlyEligibleEntries ==
    \A key \in (DOMAIN this.buffers) \ Sentinels :
        /\ hasMine(this, key)
        /\ Len(this.buffers[key]) <= this.bufferingMaxSize

\* s has two "/" in a row
RECURSIVE HasDoubleSlashFrom(_, _)
HasDoubleSlashFrom(s, i) ==
    IF i >= Len(s) THEN FALSE
    ELSE IF s[i] = "/" /\ s[i + 1] = "/" THEN TRUE
    ELSE HasDoubleSlashFrom(s, i + 1)

HasDoubleSlash(s) == HasDoubleSlashFrom(s, 1)

\* the url prefix a mount puts before its keys
KeyPrefix(mount) == IF mount.url = <<"/">> THEN <<>> ELSE mount.url

(***************************************************************************)
(* C15: every buffer key other than the sentinels (and other than the key  *)
(* "undefined" of C18) is a url path: it starts with "/" and with the url  *)
(* prefix of a mount, and it contains no "//".                             *)
(* Violated: split("//").join("/") is one pass, so a mount prefix that     *)
(* ends in "//" followed by the "/" of the file path leaves "//" in the    *)
(* key.                                                                    *)
(***************************************************************************)
C15_KeysNormalised ==
    \A key \in (DOMAIN this.buffers) \ (Sentinels \cup {UndefinedKey}) :
        /\ StartsWith(key, <<"/">>)
        /\ \E n \in 1..Len(Mounts) : StartsWith(key, KeyPrefix(Mounts[n]))
        /\ ~HasDoubleSlash(key)

\* the files a scan of the mounts stores: recognised extension, size within
\* bufferingMaxSize
EligibleFiles ==
    { f \in ScannedFiles : hasMine(this, PathOf(f)) /\ Len(fs[f]) <= this.bufferingMaxSize }

KeyOf(f) == ToKey(FileName(this.rootDir, PathOf(f)))

\* the sentinel keys the configuration enables
EnabledSentinels ==
    (IF this.notFound.kind = "string" THEN { BufferNameNotFound } ELSE {})
        \cup (IF this.listNavigator THEN { BufferNameListNavigator } ELSE {})

\* the buffer a rebuild makes from the mounts, the configuration and the
\* filesystem as they are now
ExpectedStore ==
    [ key \in { KeyOf(f) : f \in EligibleFiles } \cup EnabledSentinels |->
        IF key = BufferNameNotFound THEN readFileSync(fs, this.notFound.page)
        ELSE IF key = BufferNameListNavigator THEN ListTemplate
        ELSE fs[CHOOSE f \in EligibleFiles : KeyOf(f) = key] ]

(***************************************************************************)
(* C16: after every updateBuffer or setting call that returns, the buffer  *)
(* holds no entry left over from an earlier configuration or from an       *)
(* earlier addRootDir or addBuffer: every entry is one the rebuild         *)
(* produces.                                                               *)
(* As stated, for every call, this fails: with buffering off updateBuffer  *)
(* does nothing, and what addBuffer stored stays.                          *)
(***************************************************************************)
C16_NoLeftoverEver ==
    (op \in { "setting", "updateBuffer" } /\ ~threw) =>
        \A key \in DOMAIN this.buffers :
            key \in DOMAIN ExpectedStore /\ this.buffers[key] = ExpectedStore[key]

\* C16 as amended: after every updateBuffer or setting call that returns
\* with buffering enabled, the buffer holds exactly the entries produced by
\* scanning the current mounts plus the enabled sentinel entries.
C16_FullRebuild == Rebuilt => this.buffers = ExpectedStore

\* setting rebuilt a buffer that holds scanned files and the not-found page
C16_Witness ==
    /\ Rebuilt /\ op = "setting"
    /\ BufferHas(this.buffers, BufferNameNotFound)
    /\ (DOMAIN this.buffers) \ Sentinels # {}

\* the configuration fields of the object, the root directories read as a
\* map whichever way they are held
Configuration(t) == [t EXCEPT !.rootDir = AsMap(@), !.buffers = <<>>]

(***************************************************************************)
(* C17: listen, for any request and any outcome, leaves every              *)
(* configuration field as it was, the response headers mapping included.   *)
(* Violated: a 200 answer assigns this.headers["content-type"], so the     *)
(* configured headers carry the mime type of the last file served.         *)
(***************************************************************************)
C17_ListenKeepsConfiguration ==
    [][op' = "listen" => Configuration(this') = Configuration(this)]_vars

(***************************************************************************)
(* C18: addBuffer with a path that no mount directory prefixes is a no-op: *)
(* the buffer has the same keys and contents after the call as before.     *)
(* Violated: fileName stays undefined and the content is stored under the  *)
(* property key "undefined".                                               *)
(***************************************************************************)
C18_AddBufferOutsideMountsNoOp ==
    [][(op' = "addBuffer" /\ FileName(this.rootDir, arg'.filePath) = Undefined)
            => this'.buffers = this.buffers]_vars

\* the files below directory d that a scan stores
EligibleBelow(d) ==
    { f \in Files : /\ fs[f] # Absent
                     /\ StartsWith(PathOf(f), d \o <<"/">>)
                     /\ hasMine(this, PathOf(f))
                     /\ Len(fs[f]) <= this.bufferingMaxSize }

\* the key of file f as a file of the given mount
KeyUnder(mount, f) == Collapse(KeyPrefix(mount) \o Substring(PathOf(f), Len(mount.dir)))

(***************************************************************************)
(* C19: addRootDir(p, d) with buffering on puts p -> d into the mounts,    *)
(* stores the eligible files below d under their keys of prefix p, and     *)
(* leaves the entries of other prefixes as they were.                      *)
(* Violated: search does not pass its url on to addBuffer, which takes the *)
(* last mount whose directory starts the file path; when a later mount     *)
(* has the same directory the files are stored under that mount's prefix   *)
(* and the keys of prefix p are not written.                               *)
(***************************************************************************)
C19_AddRootDirMerges ==
    [][\A mount \in AddedMounts :
          (/\ op' = "addRootDir" /\ ~threw' /\ this.buffering
           /\ this' = addRootDir(this, fs, mount.url, mount.dir).this) =>
              /\ \E n \in 1..Len(this'.rootDir.map) : this'.rootDir.map[n] = mount
              /\ \A f \in EligibleBelow(mount.dir) :
                    /\ BufferHas(this'.buffers, KeyUnder(mount, f))
                    /\ this'.buffers[KeyUnder(mount, f)] = fs[f]
              /\ \A key \in DOMAIN this.buffers :
                    ~StartsWith(key, KeyPrefix(mount)) =>
                        /\ BufferHas(this'.buffers, key)
                        /\ this'.buffers[key] = this.buffers[key]]_vars

\* the not-found page is configured and cannot be read
PageUnreadable == this.notFound.kind = "string" /\ ~isFile(fs, this.notFound.page)

\* some mount is on a path that is no directory
MountUnreadable == \E n \in 1..Len(Mounts) : Resolve(fs, Mounts[n].dir).kind # "dir"

(***************************************************************************)
(* C20: when a read fails during a rebuild, the error leaves updateBuffer  *)
(* and setting (it is not swallowed), and the buffer is left as a partial  *)
(* result: every entry it holds is an entry of the scan of the mounts.     *)
(***************************************************************************)
C20_RebuildFailurePropagates ==
    (op \in { "setting", "updateBuffer" } /\ this.buffering) =>
        /\ PageUnreadable => threw
        /\ MountUnreadable => threw
        /\ threw =>
              \A key \in DOMAIN this.buffers :
                  /\ key \in { KeyOf(f) : f \in EligibleFiles }
                  /\ this.buffers[key] = fs[CHOOSE f \in EligibleFiles : KeyOf(f) = key]

\* a rebuild threw on the directory of its second mount after the first
\* mount was scanned
C20_Witness ==
    /\ op \in { "setting", "updateBuffer" } /\ this.buffering
    /\ MountUnreadable /\ ~PageUnreadable /\ threw
    /\ DOMAIN this.buffers # {}

\* a rebuild threw on the not-found page after the mounts were scanned
C20_PageWitness ==
    /\ op \in { "setting", "updateBuffer" } /\ this.buffering
    /\ PageUnreadable /\ ~MountUnreadable /\ threw
    /\ DOMAIN this.buffers # {}

\* the requests for the files of da whose extension is no entry of mimes
MimeRequests == { <<"/">> \o Z_BIN, <<"/">> \o P_CONSTRUCTOR }

\* the extension of a path, without its dot
ExtensionOf(p) == Substring(Extname(p), 1)

\* the file of the answer o or of the loader's result: the buffer key (the
\* url the request resolved to) when it has no path on disk
FileOf(o, url) == IF o.decisionPath = Undefined THEN url ELSE o.decisionPath

\* the answer o of listen to a request that resolved to url, with buff what
\* the loader finds for url, is a 200 only for a file whose extension is an
\* entry of mimes, with that entry as content-type; a file that exists with
\* an extension that is no entry gets the answer of error
AnswersByMime(o, buff, url) ==
    /\ o.res.statusCode = 200 =>
          /\ ExtensionOf(FileOf(o, url)) \in DOMAIN this.mimes
          /\ o.res.headers["content-type"] = this.mimes[ExtensionOf(FileOf(o, url))]
    /\ (url # <<>> /\ buff.found /\ ExtensionOf(FileOf(buff, url)) \notin DOMAIN this.mimes) =>
          /\ o.res = error(this, fs, FreshResponse).res
          /\ o.ret = error(this, fs, FreshResponse).ret

AnswerByMimeAt(r, url) == AnswersByMime(listen(this, fs, r), readFile(this, fs, url), url)

(***************************************************************************)
(* C21: listen answers 200 only for a file whose extension is an entry of  *)
(* mimes, with that entry as the content-type header; a file whose         *)
(* extension is no entry of mimes, on disk or in the buffer, gets the      *)
(* not-found answer.  Stated of the answer listen gives, in any state of   *)
(* the object, to each request of Requests and MimeRequests.               *)
(* Violated: hasMine and getMime read this.mimes[ext] on an object         *)
(* literal, which also finds inherited properties; "p.constructor" is      *)
(* buffered and answered with 200 and the function Object as content-type. *)
(***************************************************************************)
C21_ServedOnlyWithMime ==
    \A r \in Requests \cup MimeRequests :
        AnswerByMimeAt(r, getUrl(this, fs, BeforeQuery(r)).url)

\* a file with an extension that is neither an entry of mimes nor an
\* inherited property is found on disk and gets the not-found page
C21_UnknownExtensionRefused ==
    /\ readFile(this, fs, <<"/">> \o Z_BIN).decisionPath = DA \o <<"/">> \o Z_BIN
    /\ this.notFound.kind = "string"
    /\ listen(this, fs, <<"/">> \o Z_BIN).res.statusCode = 404

\* a log mode is set and a logger is attached
LogConfigured == this.logAccess # NoLogAccess /\ this.logAccess # "" /\ this.logger

\* the last listen wrote the response and returned the value that o has
SameAnswer(o) == out.res = o.res /\ out.ret = o.ret

(***************************************************************************)
(* C22: logger.write is called exactly once for a request answered with    *)
(* 200, with the configured log mode and the response as written and       *)
(* ended, when logAccess is set and a logger is attached; it is not called *)
(* for a not-found answer or a directory listing; without a log mode or    *)
(* without a logger nothing is logged, and the response and the return     *)
(* value are what they are with logging configured.                        *)
(***************************************************************************)
C22_LoggedOncePer200 ==
    Listened =>
        /\ (out.res.statusCode = 200 /\ LogConfigured) =>
              /\ Len(out.logged) = 1
              /\ out.logged[1].logMode = this.logAccess
              /\ out.logged[1].res = out.res
              /\ out.res.ended /\ Len(out.res.body) = 1
        /\ out.res.statusCode # 200 => out.logged = <<>>
        /\ ~LogConfigured =>
              /\ out.logged = <<>>
              /\ SameAnswer(listen([this EXCEPT !.logAccess = "access", !.logger = TRUE],
                                   fs, req))

\* a request was answered with 200 and logged once, with logging configured
C22_Witness ==
    /\ Listened /\ LogConfigured
    /\ out.res.statusCode = 200 /\ out.res.ended
    /\ Len(out.logged) = 1

\* a directory listing was written with logging configured
C22_ListingWitness ==
    /\ Listened /\ LogConfigured
    /\ ReqPath = <<>> /\ this.listNavigator /\ out.res.ended
    /\ out.res.statusCode # 200

\* a request was answered with 200, a logger attached and no log mode set
C22_NoModeWitness ==
    /\ Listened /\ this.logger /\ this.logAccess = NoLogAccess
    /\ out.res.statusCode = 200

\* a request was answered with 200, a log mode set and no logger attached
C22_NoLoggerWitness ==
    /\ Listened /\ ~this.logger /\ this.logAccess # NoLogAccess
    /\ out.res.statusCode = 200

\* the directory mounted at url, Undefined when url is no mount
RECURSIVE MountedDirFrom(_, _)
MountedDirFrom(url, n) ==
    IF n > Len(Mounts) THEN Undefined
    ELSE IF Mounts[n].url = url THEN Mounts[n].dir
    ELSE MountedDirFrom(url, n + 1)

MountedDir(url) == MountedDirFrom(url, 1)

\* the files below directory d1 that have no counterpart, of the same
\* relative path, below directory d2
OnlyBelow(d1, d2) ==
    { f \in Files : /\ fs[f] # Absent
                     /\ StartsWith(PathOf(f), d1 \o <<"/">>)
                     /\ ~isFile(fs, d2 \o Substring(PathOf(f), Len(d1))) }

\* the url that names file f of directory d below the mount prefix url
UrlUnder(url, d, f) == PublicUrl(Collapse(url \o Substring(PathOf(f), Len(d))))

(***************************************************************************)
(* C23: with buffering on, once addRootDir(p, d2) has replaced the mount   *)
(* (p, d1), listen does not answer a request with the bytes of a file that *)
(* exists only below d1.                                                   *)
(* Violated: addRootDir scans d2 into the buffer and removes nothing; the  *)
(* entries scanned from d1 stay under their keys and readFile returns      *)
(* them.                                                                   *)
(***************************************************************************)
C23_ReplacedMountNotServed ==
    [][\A mount \in AddedMounts :
          (/\ op' = "addRootDir" /\ ~threw' /\ this.buffering
           /\ this' = addRootDir(this, fs, mount.url, mount.dir).this
           /\ MountedDir(mount.url) \notin { Undefined, mount.dir }) =>
              \A f \in OnlyBelow(MountedDir(mount.url), mount.dir) :
                  \A r \in Requests \cup { UrlUnder(mount.url, MountedDir(mount.url), f) } :
                      listen(this', fs, r).res.body # << fs[f] >>]_vars

====
